---- MODULE Spec2Model ----
(***************************************************************************)
(* Model of the tappad capture -> recognition -> extraction workflow:      *)
(* OCRInterface (view state machine), CameraManager and OCREngine.         *)
(* Every asynchronous handler is split at its await points; one action is  *)
(* one run-to-completion step of the single-threaded event loop.           *)
(***************************************************************************)
EXTENDS Integers, Sequences, FiniteSets, Bags, TLC

(***************************************************************************)
(* Bounds                                                                  *)
(***************************************************************************)
\* number of handleProcessOCR invocations that may be pending at once
MaxRuns == 2

NULL == "null"

(***************************************************************************)
(* utils/errors                                                            *)
(***************************************************************************)
CameraErrors == {"NO_CAMERA", "PERMISSION_DENIED", "NOT_SUPPORTED", "DEVICE_ERROR"}
OCRErrors == {"INITIALIZATION_FAILED", "PROCESSING_FAILED", "NO_TEXT_FOUND", "INVALID_IMAGE"}

ERROR_MESSAGES ==
  [k \in CameraErrors \cup OCRErrors |->
     CASE k = "NO_CAMERA" -> "No camera detected. Please connect a camera and try again."
       [] k = "PERMISSION_DENIED" -> "Camera access denied. Please allow camera access in your browser settings and refresh the page."
       [] k = "NOT_SUPPORTED" -> "Your browser doesn't support camera access. Please use Chrome, Firefox, Safari, or Edge."
       [] k = "DEVICE_ERROR" -> "Camera error occurred. Please check your camera and try again."
       [] k = "INITIALIZATION_FAILED" -> "Failed to initialize OCR. Please refresh the page and try again."
       [] k = "PROCESSING_FAILED" -> "Failed to process image. Please try again with a different image."
       [] k = "NO_TEXT_FOUND" -> "No text found in the image. Try capturing a clearer image with better lighting and visible text."
       [] k = "INVALID_IMAGE" -> "Invalid image format. Please capture a new photo."]

\* isAppError accepting only string errors: Error objects are never recognised
isAppError_StringsOnly(error) == FALSE

\* an error value is represented by its name property
isAppError(error) == error \in DOMAIN ERROR_MESSAGES

\* a lookup that answers every error with the fallback text
getErrorMessage_AlwaysFallback(error) == "An unexpected error occurred. Please try again."

getErrorMessage(error) ==
  IF error \in DOMAIN ERROR_MESSAGES
    THEN ERROR_MESSAGES[error]
    ELSE "An unexpected error occurred. Please try again."

(***************************************************************************)
(* Text: a string is a sequence of one-character strings                   *)
(***************************************************************************)
IsDigit(c) == c \in {"0", "1", "2", "3", "4", "5", "6", "7", "8", "9"}
IsSpace(c) == c \in {" ", "\t", "\n", "\r"}
\* the character class [\d\s+-]
InRunClass(c) == IsDigit(c) \/ IsSpace(c) \/ c \in {"+", "-"}

\* the {8,} quantifier of the match pattern
MinRunLen == 8

RECURSIVE TrimStart(_)
TrimStart(s) ==
  IF s # <<>> /\ IsSpace(Head(s)) THEN TrimStart(Tail(s)) ELSE s

RECURSIVE TrimEnd(_)
TrimEnd(s) ==
  IF s # <<>> /\ IsSpace(s[Len(s)]) THEN TrimEnd(SubSeq(s, 1, Len(s) - 1)) ELSE s

\* String.prototype.trim
trim(s) == TrimEnd(TrimStart(s))

\* length of the longest prefix of s[i..] made of class characters
RECURSIVE RunLen(_, _)
RunLen(s, i) ==
  IF i <= Len(s) /\ InRunClass(s[i]) THEN 1 + RunLen(s, i + 1) ELSE 0

\* text.match(/[\d\s+-]{8,}/g): leftmost greedy matches, scanning from i
RECURSIVE MatchAll(_, _)
MatchAll(s, i) ==
  IF i > Len(s) THEN <<>>
  ELSE LET n == RunLen(s, i) IN
       IF n >= MinRunLen
         THEN <<SubSeq(s, i, i + n - 1)>> \o MatchAll(s, i + n)
         ELSE MatchAll(s, i + 1)

\* seq.replace(/\s/g, "")
RECURSIVE StripSpaces(_)
StripSpaces(s) ==
  IF s = <<>> THEN <<>>
  ELSE IF IsSpace(Head(s)) THEN StripSpaces(Tail(s))
       ELSE <<Head(s)>> \o StripSpaces(Tail(s))

HasDigit(s) == \E i \in 1..Len(s) : IsDigit(s[i])

RECURSIVE FilterTokens(_)
FilterTokens(ms) ==
  IF ms = <<>> THEN <<>>
  ELSE LET seq == trim(Head(ms)) IN
       IF HasDigit(seq) /\ Len(StripSpaces(seq)) >= 2
         THEN <<seq>> \o FilterTokens(Tail(ms))
         ELSE FilterTokens(Tail(ms))

extractNumberSequences(text) == FilterTokens(MatchAll(text, 1))


(***************************************************************************)
(* State                                                                   *)
(***************************************************************************)
\* texts the OCR worker can return
WorkerTexts ==
  { <<>>,
    <<" ", "\n">>,
    <<"a", "b">>,
    <<"i", "d", " ", "1", "2", " ", "3", "4", " ", "5", "6", "7">> }

Stages == {"Idle", "CameraActive", "PhotoCaptured", "Processing", "Results", "Error"}
NoMessage == ""

VARIABLES
  stage,              \* the view currently rendered in container
  errorMessage,       \* the message rendered by renderError, NoMessage otherwise
  capturedImageData,  \* OCRInterface.capturedImageData: NULL or "frame"
  lastResult,         \* OCRInterface.lastResult: NullResult or an OCRResult
  extractedNumbers,   \* OCRInterface.extractedNumbers
  capturedLocation,   \* OCRInterface.capturedLocation: NULL or "position"
  isStartingCamera,   \* OCRInterface.isStartingCamera
  cameraManager,      \* CameraManager: [state |-> [stream, isActive, deviceId], videoElement]
  ocrEngine,          \* OCREngine: [worker, isInitialized, onProgressCallback]
  hasGetUserMedia,    \* navigator.mediaDevices?.getUserMedia is defined
  hasGeolocation,     \* navigator.geolocation is defined
  startPc,            \* await point of the pending handleStartCamera invocation
  video,              \* local `video` of the pending handleStartCamera invocation
  runs,               \* bag of the pending handleProcessOCR invocations: [pc, locationPromise]
  leaked,             \* a stream with live tracks is no longer referenced by cameraManager
  orphanWorkers,      \* workers created and no longer referenced by ocrEngine
  streamRequests,     \* getUserMedia calls issued since the current start invocation began
  availChecks,        \* checkCameraAvailability calls since the current start invocation began
  dropped,            \* a duplicate start call was ignored during the current start invocation
  caught,             \* name of the error caught by the catch block of the last step, or "none"
  engineCall,         \* the last call a direct caller made on the engine: [op, pc]
  progressLog,        \* reports delivered to a direct caller's progress sink: [status, progress]
  loggerSeen,         \* last message of the tesseract logger in the pending call: [index, progress, count]
  cameraCall          \* the last call a direct caller made on the camera manager: [op, pc]

sessionVars == <<capturedImageData, lastResult, extractedNumbers, capturedLocation>>
envVars == <<hasGetUserMedia, hasGeolocation>>
startVars == <<isStartingCamera, startPc, video, streamRequests, availChecks, dropped>>
engineVars == <<ocrEngine, orphanWorkers>>
callerVars == <<engineCall, progressLog, loggerSeen, cameraCall>>
vars == <<stage, errorMessage, capturedImageData, lastResult, extractedNumbers,
          capturedLocation, isStartingCamera, cameraManager, ocrEngine,
          hasGetUserMedia, hasGeolocation, startPc, video, runs, leaked,
          orphanWorkers, streamRequests, availChecks, dropped, caught,
          engineCall, progressLog, loggerSeen, cameraCall>>

\* a pending handleProcessOCR invocation: its await point and its locationPromise
Run(pc, locationPromise) == [pc |-> pc, locationPromise |-> locationPromise]
PendingRuns == BagToSet(runs)
AddRun(new) == runs (+) SetToBag({new})
RemoveRun(run) == runs (-) SetToBag({run})
ReplaceRun(run, new) == (runs (-) SetToBag({run})) (+) SetToBag({new})

\* the null value of lastResult, and the OCRResult recognizeText returns
NullResult == [isNull |-> TRUE]
OCRResult(t) == [isNull |-> FALSE, text |-> t]

Init ==
  /\ stage = "Idle"
  /\ errorMessage = NoMessage
  /\ capturedImageData = NULL
  /\ lastResult = NullResult
  /\ extractedNumbers = <<>>
  /\ capturedLocation = NULL
  /\ isStartingCamera = FALSE
  /\ cameraManager = [state |-> [stream |-> NULL, isActive |-> FALSE, deviceId |-> NULL],
                      videoElement |-> NULL]
  /\ ocrEngine = [worker |-> NULL, isInitialized |-> FALSE, onProgressCallback |-> NULL]
  /\ engineCall = [op |-> "none", pc |-> "done"]
  /\ progressLog = <<>>
  /\ loggerSeen = [index |-> 0, progress |-> 0, count |-> 0]
  /\ cameraCall = [op |-> "none", pc |-> "done"]
  /\ hasGetUserMedia \in BOOLEAN
  /\ hasGeolocation \in BOOLEAN
  /\ startPc = "idle"
  /\ video = NULL
  /\ runs = EmptyBag
  /\ leaked = FALSE
  /\ orphanWorkers = 0
  /\ streamRequests = 0
  /\ availChecks = 0
  /\ dropped = FALSE
  /\ caught = "none"

(***************************************************************************)
(* DOM: replacing container.innerHTML detaches the previous video element  *)
(***************************************************************************)
Detached(v) == IF v = "preview" THEN "detached" ELSE v

AfterRender(cm) == [cm EXCEPT !.videoElement = Detached(@)]

(***************************************************************************)
(* CameraManager                                                           *)
(***************************************************************************)
EnumerateOutcomes == {"videoinput", "none", "throws"}

checkCameraAvailability(enumerated) ==
  IF ~hasGetUserMedia THEN FALSE
  ELSE enumerated = "videoinput"

\* names of the errors getUserMedia rejects with
StreamErrorNames ==
  {"NotAllowedError", "PermissionDeniedError", "NotFoundError",
   "DevicesNotFoundError", "NotSupportedError", "AbortError"}

\* a mapping that reports every fault as a device error
handleStreamError_AllDeviceError(errorName) == "DEVICE_ERROR"

handleStreamError(errorName) ==
  CASE errorName \in {"NotAllowedError", "PermissionDeniedError"} -> "PERMISSION_DENIED"
    [] errorName \in {"NotFoundError", "DevicesNotFoundError"} -> "NO_CAMERA"
    [] errorName = "NotSupportedError" -> "NOT_SUPPORTED"
    [] OTHER -> "DEVICE_ERROR"

\* what the first video track of an acquired stream reports
TrackSettings == {"noTrack", "noDeviceId", "device"}

\* a request that stores the stream without marking the camera active
StreamGranted_NotActive(cm, track) ==
  [cm EXCEPT !.state =
     [stream |-> "stream",
      isActive |-> cm.state.isActive,
      deviceId |-> CASE track = "noTrack" -> cm.state.deviceId
                     [] track = "noDeviceId" -> NULL
                     [] OTHER -> "device"]]

\* requestCameraAccess after getUserMedia resolved with a stream
StreamGranted(cm, track) ==
  [cm EXCEPT !.state =
     [stream |-> "stream",
      isActive |-> TRUE,
      deviceId |-> CASE track = "noTrack" -> cm.state.deviceId
                     [] track = "noDeviceId" -> NULL
                     [] OTHER -> "device"]]

\* attachToVideoElement, defined when a stream is held
attachToVideoElement(cm, v) == [cm EXCEPT !.videoElement = v]

\* the error capturePhoto throws, or "none" when it returns a frame
capturePhoto(cm, canvasOk) ==
  IF cm.videoElement = NULL THEN "Error"
  ELSE IF cm.state.stream = NULL \/ ~cm.state.isActive THEN "Error"
  ELSE IF ~canvasOk THEN "Error"
  ELSE "none"

\* stopCamera that stops the tracks but leaves the sink attached
stopCamera_KeepsSink(cm) ==
  [state |-> [stream |-> NULL, isActive |-> FALSE, deviceId |-> NULL],
   videoElement |-> cm.videoElement]

stopCamera(cm) ==
  [state |-> [stream |-> NULL, isActive |-> FALSE, deviceId |-> NULL],
   videoElement |-> NULL]

(***************************************************************************)
(* OCREngine                                                               *)
(***************************************************************************)
isReady(eng) == eng.isInitialized /\ eng.worker # NULL

\* String.prototype.trim().length === 0 on the worker's text
IsBlank(text) == Len(trim(text)) = 0

\* what worker.recognize settles with: a fault, or a result carrying a text
WorkerOutcomes ==
  {[fault |-> TRUE]} \cup {[fault |-> FALSE, text |-> t] : t \in WorkerTexts}

\* the try block of recognizeText once worker.recognize has settled:
\* the name of the error it throws, or "none" when it returns a result
recognizeTry(workerResult) ==
  IF workerResult.fault THEN "Error"
  ELSE IF IsBlank(workerResult.text) THEN "NO_TEXT_FOUND"
  ELSE "none"

\* a catch block that wraps every error, NO_TEXT_FOUND included
recognizeCatch_WrapsAll(error) == "PROCESSING_FAILED"

\* the catch block of recognizeText: the name of the error it throws
recognizeCatch(error) ==
  IF error = "NO_TEXT_FOUND" THEN error ELSE "PROCESSING_FAILED"

\* the outcome of recognizeText: the kind it throws, or "none"
recognizeOutcome(workerResult) ==
  LET error == recognizeTry(workerResult) IN
  IF error = "none" THEN "none" ELSE recognizeCatch(error)

(***************************************************************************)
(* OCRInterface.handleStartCamera                                          *)
(***************************************************************************)
\* a handler without the finally block
FinishStart_KeepsFlag ==
  /\ isStartingCamera' = isStartingCamera
  /\ startPc' = "idle"
  /\ video' = NULL

\* the finally block
FinishStart ==
  /\ isStartingCamera' = FALSE
  /\ startPc' = "idle"
  /\ video' = NULL

\* handleStartCamera without the single-flight guard
handleStartCamera_NoGuard ==
  /\ isStartingCamera' = TRUE
  /\ startPc' = "awaitAvail"
  /\ availChecks' = 1
  /\ streamRequests' = 0
  /\ dropped' = isStartingCamera
  /\ UNCHANGED video

\* entry of handleStartCamera, up to the await of checkCameraAvailability
handleStartCamera ==
  IF isStartingCamera
    THEN /\ dropped' = TRUE
         /\ UNCHANGED <<isStartingCamera, startPc, video, streamRequests, availChecks>>
    ELSE /\ isStartingCamera' = TRUE
         /\ startPc' = "awaitAvail"
         /\ availChecks' = 1
         /\ streamRequests' = 0
         /\ dropped' = FALSE
         /\ UNCHANGED video

\* click on #start-camera, a button of the idle view
ClickStartCamera ==
  /\ stage = "Idle"
  /\ handleStartCamera
  /\ caught' = "none"
  /\ UNCHANGED <<stage, errorMessage, sessionVars, cameraManager, engineVars,
                 envVars, callerVars, runs, leaked>>

\* a continuation that ignores the result of the availability check
AvailabilitySettles_IgnoresResult(enumerated) ==
  /\ startPc = "awaitAvail"
  /\ stage' = "CameraActive"
  /\ errorMessage' = NoMessage
  /\ startPc' = "awaitDelay"
  /\ cameraManager' = AfterRender(cameraManager)
  /\ caught' = "none"
  /\ UNCHANGED <<isStartingCamera, video, sessionVars, engineVars, envVars, callerVars, runs, leaked,
                 streamRequests, availChecks, dropped>>

\* checkCameraAvailability settles: render the error or the camera view
AvailabilitySettles(enumerated) ==
  /\ startPc = "awaitAvail"
  /\   IF ~checkCameraAvailability(enumerated)
         THEN /\ stage' = "Error"
              /\ errorMessage' = "No camera detected. Please ensure your device has a camera and try again."
              /\ FinishStart
         ELSE /\ stage' = "CameraActive"
              /\ errorMessage' = NoMessage
              /\ startPc' = "awaitDelay"
              /\ UNCHANGED <<isStartingCamera, video>>
  /\ cameraManager' = AfterRender(cameraManager)
  /\ caught' = "none"
  /\ UNCHANGED <<sessionVars, engineVars, envVars, callerVars, runs, leaked,
                 streamRequests, availChecks, dropped>>

\* the outer catch block of handleStartCamera, then finally
StartFails(error) ==
  /\ stage' = "Error"
  /\ errorMessage' = (IF isAppError(error) THEN getErrorMessage(error)
                      ELSE "Failed to start camera")
  /\ cameraManager' = stopCamera(cameraManager)
  /\ caught' = error
  /\ FinishStart

\* the 100 ms timer fires: look up the video element, request the back camera
DelayElapses ==
  /\ startPc = "awaitDelay"
  /\ IF stage # "CameraActive"
       THEN \* querySelector(".video-preview") finds nothing
            /\ StartFails("Error")
            /\ UNCHANGED streamRequests
       ELSE IF ~hasGetUserMedia
         THEN \* both requestCameraAccess calls throw without a request
              /\ StartFails("NOT_SUPPORTED")
              /\ UNCHANGED streamRequests
         ELSE /\ video' = "preview"
              /\ startPc' = "awaitAccess1"
              /\ streamRequests' = streamRequests + 1
              /\ caught' = "none"
              /\ UNCHANGED <<stage, errorMessage, cameraManager, isStartingCamera>>
  /\ UNCHANGED <<sessionVars, engineVars, envVars, callerVars, runs, leaked, availChecks, dropped>>

\* getUserMedia resolves with a stream: requestCameraAccess stores it, the
\* handler attaches it to `video` and returns
AccessGranted ==
  /\ startPc \in {"awaitAccess1", "awaitAccess2"}
  /\ \E track \in TrackSettings :
       cameraManager' = attachToVideoElement(StreamGranted(cameraManager, track), video)
  /\ leaked' = (leaked \/ cameraManager.state.stream # NULL)
  /\ FinishStart
  /\ caught' = "none"
  /\ UNCHANGED <<stage, errorMessage, sessionVars, engineVars, envVars, callerVars, runs,
                 streamRequests, availChecks, dropped>>

\* the facing mode of the stream request an invocation is awaiting
PendingFacing ==
  IF startPc = "awaitAccess1" THEN "environment"
  ELSE IF startPc = "awaitAccess2" THEN "user"
  ELSE NULL

\* a handler that gives up at the first refusal
AccessDenied_NoFallback(errorName) ==
  /\ startPc \in {"awaitAccess1", "awaitAccess2"}
  /\ StartFails(handleStreamError(errorName))
  /\ UNCHANGED streamRequests
  /\ UNCHANGED <<sessionVars, engineVars, envVars, callerVars, runs, leaked, availChecks, dropped>>

\* getUserMedia rejects: fall back to the front camera, or give up
AccessDenied(errorName) ==
  /\ startPc \in {"awaitAccess1", "awaitAccess2"}
  /\ IF startPc = "awaitAccess1"
       THEN /\ startPc' = "awaitAccess2"
            /\ streamRequests' = streamRequests + 1
            /\ caught' = "none"
            /\ UNCHANGED <<stage, errorMessage, cameraManager, isStartingCamera, video>>
       ELSE /\ StartFails(handleStreamError(errorName))
            /\ UNCHANGED streamRequests
  /\ UNCHANGED <<sessionVars, engineVars, envVars, callerVars, runs, leaked, availChecks, dropped>>

(***************************************************************************)
(* OCRInterface.handleCapture / handleCancel / handleRetake / handleReset  *)
(***************************************************************************)
handleCapture ==
  /\ stage = "CameraActive"
  /\ \E canvasOk \in BOOLEAN :
       LET error == capturePhoto(cameraManager, canvasOk) IN
       IF error = "none"
         THEN /\ capturedImageData' = "frame"
              /\ cameraManager' = stopCamera(cameraManager)
              /\ stage' = "PhotoCaptured"
              /\ errorMessage' = NoMessage
              /\ caught' = "none"
         ELSE /\ stage' = "Error"
              /\ errorMessage' = "Failed to capture photo. Please try again."
              /\ cameraManager' = AfterRender(cameraManager)
              /\ caught' = error
              /\ UNCHANGED capturedImageData
  /\ video' = Detached(video)
  /\ UNCHANGED <<lastResult, extractedNumbers, capturedLocation, engineVars, envVars, callerVars,
                 runs, leaked, isStartingCamera, startPc, streamRequests,
                 availChecks, dropped>>

handleCancel ==
  /\ stage = "CameraActive"
  /\ cameraManager' = stopCamera(cameraManager)
  /\ stage' = "Idle"
  /\ errorMessage' = NoMessage
  /\ video' = Detached(video)
  /\ caught' = "none"
  /\ UNCHANGED <<sessionVars, engineVars, envVars, callerVars, runs, leaked, isStartingCamera,
                 startPc, streamRequests, availChecks, dropped>>

handleRetake ==
  /\ stage = "PhotoCaptured"
  /\ capturedImageData' = NULL
  /\ handleStartCamera
  /\ caught' = "none"
  /\ UNCHANGED <<stage, errorMessage, lastResult, extractedNumbers, capturedLocation,
                 cameraManager, engineVars, envVars, callerVars, runs, leaked>>

\* a reset button that only the results view carries
handleReset_ResultsOnly ==
  /\ stage = "Results"
  /\ capturedImageData' = NULL
  /\ lastResult' = NullResult
  /\ capturedLocation' = NULL
  /\ stage' = "Idle"
  /\ errorMessage' = NoMessage
  /\ cameraManager' = AfterRender(cameraManager)
  /\ video' = Detached(video)
  /\ caught' = "none"
  /\ UNCHANGED <<extractedNumbers, engineVars, envVars, callerVars, runs, leaked, isStartingCamera,
                 startPc, streamRequests, availChecks, dropped>>

\* click on #scan-again (results view) or #retry (error view)
handleReset ==
  /\ stage \in {"Results", "Error"}
  /\ capturedImageData' = NULL
  /\ lastResult' = NullResult
  /\ capturedLocation' = NULL
  /\ stage' = "Idle"
  /\ errorMessage' = NoMessage
  /\ cameraManager' = AfterRender(cameraManager)
  /\ video' = Detached(video)
  /\ caught' = "none"
  /\ UNCHANGED <<extractedNumbers, engineVars, envVars, callerVars, runs, leaked, isStartingCamera,
                 startPc, streamRequests, availChecks, dropped>>


(***************************************************************************)
(* OCRInterface.handleProcessOCR                                           *)
(***************************************************************************)
\* a catch block that goes back to the idle view instead of showing the error
ProcessFails_RendersIdle(error) ==
  /\ stage' = "Idle"
  /\ errorMessage' = NoMessage
  /\ caught' = error

\* the catch block of handleProcessOCR
ProcessFails(error) ==
  /\ stage' = "Error"
  /\ errorMessage' = (IF isAppError(error) THEN getErrorMessage(error)
                      ELSE "OCR processing failed")
  /\ caught' = error

\* the error thrown between the engine check and the await of worker.recognize,
\* or "none": canvas creation from capturedImageData, then recognizeText's guard
prepareRecognize(eng, ctxOk) ==
  IF capturedImageData = NULL THEN "TypeError"
  ELSE IF ~ctxOk THEN "Error"
  ELSE IF eng.worker = NULL \/ ~eng.isInitialized THEN "Error"
  ELSE "none"

\* getCaptureLocation up to its await
getCaptureLocation == IF hasGeolocation THEN "pending" ELSE "resolvedNull"

\* click on #process-ocr, up to the first await
handleProcessOCR ==
  /\ stage = "PhotoCaptured"
  /\ IF capturedImageData = NULL
       THEN /\ stage' = "Error"
            /\ errorMessage' = "No image to process"
            /\ caught' = "none"
            /\ UNCHANGED <<runs, ocrEngine>>
       ELSE /\ BagCardinality(runs) < MaxRuns
            /\ LET locationPromise == getCaptureLocation IN
               IF ~isReady(ocrEngine)
                 THEN /\ ocrEngine' = [ocrEngine EXCEPT !.onProgressCallback = "updateProgress"]
                      /\ runs' = AddRun(Run("awaitInit", locationPromise))
                      /\ stage' = "Processing"
                      /\ errorMessage' = NoMessage
                      /\ caught' = "none"
                 ELSE /\ \E ctxOk \in BOOLEAN :
                           LET error == prepareRecognize(ocrEngine, ctxOk) IN
                           IF error = "none"
                             THEN /\ runs' = AddRun(Run("awaitRecognize", locationPromise))
                                  /\ stage' = "Processing"
                                  /\ errorMessage' = NoMessage
                                  /\ caught' = "none"
                             ELSE /\ ProcessFails(error)
                                  /\ UNCHANGED runs
                      /\ UNCHANGED ocrEngine
  /\ cameraManager' = AfterRender(cameraManager)
  /\ video' = Detached(video)
  /\ UNCHANGED <<sessionVars, orphanWorkers, envVars, callerVars, leaked, isStartingCamera, startPc,
                 streamRequests, availChecks, dropped>>

\* createWorker settles for a run: initialize returns or throws, and on
\* success the handler goes on to the await of worker.recognize
InitSettles(run, created, ctxOk) ==
  /\ run.pc = "awaitInit"
  /\   IF ~created
         THEN /\ ProcessFails("INITIALIZATION_FAILED")
              /\ runs' = RemoveRun(run)
              /\ cameraManager' = AfterRender(cameraManager)
              /\ video' = Detached(video)
              /\ UNCHANGED <<ocrEngine, orphanWorkers>>
         ELSE /\ ocrEngine' = [ocrEngine EXCEPT !.worker = "worker", !.isInitialized = TRUE]
              /\ orphanWorkers' = IF ocrEngine.worker # NULL THEN orphanWorkers + 1
                                  ELSE orphanWorkers
              /\ LET error == prepareRecognize(ocrEngine', ctxOk) IN
                 IF error = "none"
                   THEN /\ runs' = ReplaceRun(run, Run("awaitRecognize", run.locationPromise))
                        /\ caught' = "none"
                        /\ UNCHANGED <<stage, errorMessage, cameraManager, video>>
                   ELSE /\ ProcessFails(error)
                        /\ runs' = RemoveRun(run)
                        /\ cameraManager' = AfterRender(cameraManager)
                        /\ video' = Detached(video)
  /\ UNCHANGED <<sessionVars, envVars, callerVars, leaked, isStartingCamera, startPc,
                 streamRequests, availChecks, dropped>>

\* renderResultsView for the result held after this step
renderResultsView(result) ==
  IF result = NullResult
    THEN /\ stage' = "Error"
         /\ errorMessage' = "No OCR results available"
         /\ UNCHANGED extractedNumbers
    ELSE /\ extractedNumbers' = extractNumberSequences(result.text)
         /\ stage' = "Results"
         /\ errorMessage' = NoMessage

\* the value the locationPromise of a run resolved with
LocationValue(p) == IF p = "resolvedPosition" THEN "position" ELSE NULL

\* a handler that renders the results without awaiting the location lookup
RecognizeSettles_NoLocationWait(run, workerResult) ==
  /\ run.pc = "awaitRecognize"
  /\   LET error == recognizeOutcome(workerResult) IN
       IF error # "none"
         THEN /\ ProcessFails(error)
              /\ runs' = RemoveRun(run)
              /\ cameraManager' = AfterRender(cameraManager)
              /\ video' = Detached(video)
              /\ UNCHANGED sessionVars
         ELSE /\ lastResult' = OCRResult(workerResult.text)
              /\ caught' = "none"
              /\ capturedLocation' = LocationValue(run.locationPromise)
              /\ renderResultsView(lastResult')
              /\ runs' = RemoveRun(run)
              /\ cameraManager' = AfterRender(cameraManager)
              /\ video' = Detached(video)
              /\ UNCHANGED capturedImageData
  /\ UNCHANGED <<engineVars, envVars, callerVars, leaked, isStartingCamera, startPc,
                 streamRequests, availChecks, dropped>>

\* worker.recognize settles for a run
RecognizeSettles(run, workerResult) ==
  /\ run.pc = "awaitRecognize"
  /\   LET error == recognizeOutcome(workerResult) IN
       IF error # "none"
         THEN /\ ProcessFails(error)
              /\ runs' = RemoveRun(run)
              /\ cameraManager' = AfterRender(cameraManager)
              /\ video' = Detached(video)
              /\ UNCHANGED sessionVars
         ELSE /\ lastResult' = OCRResult(workerResult.text)
              /\ caught' = "none"
              /\ IF run.locationPromise = "pending"
                   THEN /\ runs' = ReplaceRun(run, Run("awaitLocation", "pending"))
                        /\ UNCHANGED <<stage, errorMessage, extractedNumbers,
                                       capturedLocation, cameraManager, video>>
                   ELSE /\ capturedLocation' = LocationValue(run.locationPromise)
                        /\ renderResultsView(lastResult')
                        /\ runs' = RemoveRun(run)
                        /\ cameraManager' = AfterRender(cameraManager)
                        /\ video' = Detached(video)
              /\ UNCHANGED capturedImageData
  /\ UNCHANGED <<engineVars, envVars, callerVars, leaked, isStartingCamera, startPc,
                 streamRequests, availChecks, dropped>>

\* getCaptureLocation of a run settles: a position, or null on error or timeout
LocationSettles(run, located) ==
  /\ run.locationPromise = "pending"
  /\   LET p == IF located THEN "resolvedPosition" ELSE "resolvedNull" IN
       IF run.pc = "awaitLocation"
         THEN /\ capturedLocation' = LocationValue(p)
              /\ renderResultsView(lastResult)
              /\ runs' = RemoveRun(run)
              /\ cameraManager' = AfterRender(cameraManager)
              /\ video' = Detached(video)
         ELSE /\ runs' = ReplaceRun(run, Run(run.pc, p))
              /\ UNCHANGED <<stage, errorMessage, extractedNumbers, capturedLocation,
                             cameraManager, video>>
  /\ caught' = "none"
  /\ UNCHANGED <<capturedImageData, lastResult, engineVars, envVars, callerVars, leaked,
                 isStartingCamera, startPc, streamRequests, availChecks, dropped>>

(***************************************************************************)
(* Specification                                                           *)
(***************************************************************************)
Next ==
  \/ ClickStartCamera
  \/ \E enumerated \in EnumerateOutcomes : AvailabilitySettles(enumerated)
  \/ DelayElapses
  \/ AccessGranted
  \/ \E errorName \in StreamErrorNames : AccessDenied(errorName)
  \/ handleCapture
  \/ handleCancel
  \/ handleRetake
  \/ handleProcessOCR
  \/ \E run \in PendingRuns, created \in BOOLEAN, ctxOk \in BOOLEAN :
       InitSettles(run, created, ctxOk)
  \/ \E run \in PendingRuns, workerResult \in WorkerOutcomes :
       RecognizeSettles(run, workerResult)
  \/ \E run \in PendingRuns, located \in BOOLEAN : LocationSettles(run, located)
  \/ handleReset

Spec == Init /\ [][Next]_vars

TypeOK ==
  /\ stage \in Stages
  /\ capturedImageData \in {NULL, "frame"}
  /\ capturedLocation \in {NULL, "position"}
  /\ isStartingCamera \in BOOLEAN
  /\ startPc \in {"idle", "awaitAvail", "awaitDelay", "awaitAccess1", "awaitAccess2"}
  /\ video \in {NULL, "preview", "detached"}
  /\ leaked \in BOOLEAN
  /\ BagCardinality(runs) <= MaxRuns
  /\ streamRequests \in 0..2


(***************************************************************************)
(* OCREngine called directly, one call at a time                           *)
(*                                                                         *)
(* progressLog holds the status and percentage of the reports of the       *)
(* current run: those of the last initialize that started a worker and of  *)
(* the recognition after it; the message text of a report is left out.     *)
(***************************************************************************)
MaxLoggerEvents == 2

\* the statuses of the tesseract logger, in the order of the keys of progressMap
TesseractStatuses ==
  <<"loading tesseract core", "initializing tesseract", "initialized tesseract",
    "loading language traineddata", "loaded language traineddata",
    "initializing api", "initialized api", "recognizing text">>

progressMap(status) ==
  CASE status = "loading tesseract core" -> "loading"
    [] status = "initializing tesseract" -> "initializing"
    [] status = "initialized tesseract" -> "initializing"
    [] status = "loading language traineddata" -> "loading"
    [] status = "loaded language traineddata" -> "initializing"
    [] status = "initializing api" -> "initializing"
    [] status = "initialized api" -> "initializing"
    [] status = "recognizing text" -> "recognizing"
    [] OTHER -> "recognizing"

\* message.progress in thousandths
ProgressValues == {0, 6, 500, 1000}

\* Math.round(message.progress * 100)
RoundPercent(progress) == (progress + 5) \div 10

OCRProgress(status, progress) == [status |-> status, progress |-> progress]

\* reportProgress: the log after the report, delivered only to a sink
reportProgress(eng, log, progress) ==
  IF eng.onProgressCallback # NULL THEN Append(log, progress) ELSE log

handleTesseractLogger(eng, log, message) ==
  reportProgress(eng, log, OCRProgress(progressMap(message.status),
                                       RoundPercent(message.progress)))

\* the messages the worker logs during createWorker and during recognize
LoggerIndices(op) ==
  IF op = "initialize" THEN 1..7 ELSE IF op = "recognizeText" THEN {8} ELSE {}

\* the worker goes through its statuses in order and never reports less
\* progress for the status it is in
InLoggerOrder(index, progress) ==
  \/ index > loggerSeen.index
  \/ index = loggerSeen.index /\ progress >= loggerSeen.progress

\* the record of the run a recognition belongs to
RunRecord(log) ==
  IF log # <<>> /\ log[Len(log)].status \in {"completed", "error"} THEN <<>> ELSE log

Returned(op) == [op |-> op, pc |-> "done"]
Awaiting(op) == [op |-> op, pc |-> "await"]

engineUnchanged == UNCHANGED <<stage, errorMessage, sessionVars, isStartingCamera, cameraManager,
                               envVars, startPc, video, runs, leaked, orphanWorkers,
                               streamRequests, availChecks, dropped, cameraCall>>

\* an initialize that creates a worker although the engine is ready
initialize_NoGuard(onProgress) ==
  /\ engineCall.pc = "done"
  /\ ocrEngine' = [ocrEngine EXCEPT !.onProgressCallback = onProgress]
  /\ progressLog' = reportProgress(ocrEngine', <<>>, OCRProgress("loading", 0))
  /\ engineCall' = Awaiting("initialize")
  /\ loggerSeen' = [index |-> 0, progress |-> 0, count |-> 0]
  /\ caught' = "none"
  /\ engineUnchanged

\* initialize(onProgress) up to the await of createWorker
initialize(onProgress) ==
  /\ engineCall.pc = "done"
  /\ IF ocrEngine.isInitialized /\ ocrEngine.worker # NULL
       THEN /\ engineCall' = Returned("initialize")
            /\ UNCHANGED <<ocrEngine, progressLog, loggerSeen>>
       ELSE /\ ocrEngine' = [ocrEngine EXCEPT !.onProgressCallback = onProgress]
            /\ progressLog' = reportProgress(ocrEngine', <<>>, OCRProgress("loading", 0))
            /\ engineCall' = Awaiting("initialize")
            /\ loggerSeen' = [index |-> 0, progress |-> 0, count |-> 0]
  /\ caught' = "none"
  /\ engineUnchanged

\* a failed creation that leaves the engine marked as initialized
createWorkerSettles_MarksInitialized(created) ==
  /\ engineCall = Awaiting("initialize")
  /\ ocrEngine' = [ocrEngine EXCEPT !.worker = "worker", !.isInitialized = TRUE]
  /\ progressLog' = reportProgress(ocrEngine, progressLog,
                                   IF created THEN OCRProgress("initializing", 100)
                                   ELSE OCRProgress("error", 0))
  /\ caught' = IF created THEN "none" ELSE "INITIALIZATION_FAILED"
  /\ engineCall' = Returned("initialize")
  /\ UNCHANGED loggerSeen
  /\ engineUnchanged

\* createWorker settles: the rest of initialize
createWorkerSettles(created) ==
  /\ engineCall = Awaiting("initialize")
  /\ IF created
       THEN /\ ocrEngine' = [ocrEngine EXCEPT !.worker = "worker", !.isInitialized = TRUE]
            /\ progressLog' = reportProgress(ocrEngine, progressLog,
                                             OCRProgress("initializing", 100))
            /\ caught' = "none"
       ELSE /\ progressLog' = reportProgress(ocrEngine, progressLog, OCRProgress("error", 0))
            /\ caught' = "INITIALIZATION_FAILED"
            /\ UNCHANGED ocrEngine
  /\ engineCall' = Returned("initialize")
  /\ UNCHANGED loggerSeen
  /\ engineUnchanged

\* the worker logs a message while createWorker or recognize is pending
LoggerMessage(index, progress) ==
  /\ engineCall.pc = "await"
  /\ index \in LoggerIndices(engineCall.op)
  /\ InLoggerOrder(index, progress)
  /\ loggerSeen.count < MaxLoggerEvents
  /\ loggerSeen' = [index |-> index, progress |-> progress, count |-> loggerSeen.count + 1]
  /\ progressLog' = handleTesseractLogger(ocrEngine, progressLog,
                      [status |-> TesseractStatuses[index], progress |-> progress])
  /\ UNCHANGED <<ocrEngine, engineCall, caught>>
  /\ engineUnchanged

\* a recognizeText that goes on to the worker whatever the engine's state
recognizeText_NoGuard ==
  /\ engineCall.pc = "done"
  /\ progressLog' = reportProgress(ocrEngine, RunRecord(progressLog),
                                   OCRProgress("recognizing", 0))
  /\ engineCall' = Awaiting("recognizeText")
  /\ loggerSeen' = [index |-> 0, progress |-> 0, count |-> 0]
  /\ caught' = "none"
  /\ UNCHANGED ocrEngine
  /\ engineUnchanged

\* recognizeText(image) up to the await of worker.recognize
recognizeText ==
  /\ engineCall.pc = "done"
  /\ IF ocrEngine.worker = NULL \/ ~ocrEngine.isInitialized
       THEN /\ caught' = "Error"
            /\ engineCall' = Returned("recognizeText")
            /\ UNCHANGED <<progressLog, loggerSeen>>
       ELSE /\ progressLog' = reportProgress(ocrEngine, RunRecord(progressLog),
                                             OCRProgress("recognizing", 0))
            /\ engineCall' = Awaiting("recognizeText")
            /\ loggerSeen' = [index |-> 0, progress |-> 0, count |-> 0]
            /\ caught' = "none"
  /\ UNCHANGED ocrEngine
  /\ engineUnchanged

\* worker.recognize settles: the rest of recognizeText
recognizeSettles(workerResult) ==
  /\ engineCall = Awaiting("recognizeText")
  /\ LET tried == IF workerResult.fault THEN progressLog
                  ELSE reportProgress(ocrEngine, progressLog, OCRProgress("completed", 100))
         error == recognizeTry(workerResult)
     IN  /\ progressLog' = IF error \in {"none", "NO_TEXT_FOUND"} THEN tried
                           ELSE reportProgress(ocrEngine, tried, OCRProgress("error", 0))
         /\ caught' = recognizeOutcome(workerResult)
  /\ engineCall' = Returned("recognizeText")
  /\ UNCHANGED <<ocrEngine, loggerSeen>>
  /\ engineUnchanged

\* terminate() up to the await of worker.terminate
terminate ==
  /\ engineCall.pc = "done"
  /\ engineCall' = IF ocrEngine.worker # NULL THEN Awaiting("terminate")
                   ELSE Returned("terminate")
  /\ caught' = "none"
  /\ UNCHANGED <<ocrEngine, progressLog, loggerSeen>>
  /\ engineUnchanged

\* worker.terminate settles: the rest of terminate
terminateSettles(terminated) ==
  /\ engineCall = Awaiting("terminate")
  /\ IF terminated
       THEN /\ ocrEngine' = [worker |-> NULL, isInitialized |-> FALSE,
                             onProgressCallback |-> NULL]
            /\ caught' = "none"
       ELSE /\ caught' = "Error"
            /\ UNCHANGED ocrEngine
  /\ engineCall' = Returned("terminate")
  /\ UNCHANGED <<progressLog, loggerSeen>>
  /\ engineUnchanged

EngineInit == Init /\ hasGetUserMedia /\ hasGeolocation

EngineNext ==
  \/ \E onProgress \in {"updateProgress", NULL} : initialize(onProgress)
  \/ \E created \in BOOLEAN : createWorkerSettles(created)
  \/ \E index \in 1..Len(TesseractStatuses), progress \in ProgressValues :
       LoggerMessage(index, progress)
  \/ recognizeText
  \/ \E workerResult \in WorkerOutcomes : recognizeSettles(workerResult)
  \/ terminate
  \/ \E terminated \in BOOLEAN : terminateSettles(terminated)

EngineSpec == EngineInit /\ [][EngineNext]_vars

(***************************************************************************)
(* CameraManager called directly, one call at a time                       *)
(***************************************************************************)
FacingModes == {"environment", "user"}

cameraUnchanged == UNCHANGED <<stage, errorMessage, sessionVars, isStartingCamera, engineVars,
                               envVars, startPc, video, runs, streamRequests, availChecks,
                               dropped, engineCall, progressLog, loggerSeen>>

\* requestCameraAccess(config) up to the await of getUserMedia
callRequestCameraAccess(facingMode) ==
  /\ cameraCall.pc = "done"
  /\ IF ~hasGetUserMedia
       THEN /\ caught' = "NOT_SUPPORTED"
            /\ cameraCall' = [op |-> "requestCameraAccess", pc |-> "done",
                              facingMode |-> facingMode]
       ELSE /\ caught' = "none"
            /\ cameraCall' = [op |-> "requestCameraAccess", pc |-> "await",
                              facingMode |-> facingMode]
  /\ UNCHANGED <<cameraManager, leaked>>
  /\ cameraUnchanged

\* getUserMedia resolves with a stream: the rest of the try block
getUserMediaResolves(track) ==
  /\ cameraCall.pc = "await"
  /\ cameraManager' = StreamGranted(cameraManager, track)
  /\ leaked' = (leaked \/ cameraManager.state.stream # NULL)
  /\ caught' = "none"
  /\ cameraCall' = [cameraCall EXCEPT !.pc = "done"]
  /\ cameraUnchanged

\* getUserMedia rejects: the catch block
getUserMediaRejects(errorName) ==
  /\ cameraCall.pc = "await"
  /\ caught' = handleStreamError(errorName)
  /\ cameraCall' = [cameraCall EXCEPT !.pc = "done"]
  /\ UNCHANGED <<cameraManager, leaked>>
  /\ cameraUnchanged

\* attachToVideoElement(video) on the preview element
callAttachToVideoElement ==
  /\ cameraCall.pc = "done"
  /\ IF cameraManager.state.stream = NULL
       THEN /\ caught' = "Error"
            /\ UNCHANGED cameraManager
       ELSE /\ cameraManager' = attachToVideoElement(cameraManager, "preview")
            /\ caught' = "none"
  /\ cameraCall' = [op |-> "attachToVideoElement", pc |-> "done"]
  /\ UNCHANGED leaked
  /\ cameraUnchanged

\* capturePhoto(): a frame is returned or an error thrown, the camera is left as it is
callCapturePhoto(canvasOk) ==
  /\ cameraCall.pc = "done"
  /\ caught' = capturePhoto(cameraManager, canvasOk)
  /\ cameraCall' = [op |-> "capturePhoto", pc |-> "done"]
  /\ UNCHANGED <<cameraManager, leaked>>
  /\ cameraUnchanged

\* stopCamera()
callStopCamera ==
  /\ cameraCall.pc = "done"
  /\ cameraManager' = stopCamera(cameraManager)
  /\ caught' = "none"
  /\ cameraCall' = [op |-> "stopCamera", pc |-> "done"]
  /\ UNCHANGED leaked
  /\ cameraUnchanged

CameraInit == Init /\ hasGeolocation

CameraNext ==
  \/ \E facingMode \in FacingModes : callRequestCameraAccess(facingMode)
  \/ \E track \in TrackSettings : getUserMediaResolves(track)
  \/ \E errorName \in StreamErrorNames : getUserMediaRejects(errorName)
  \/ callAttachToVideoElement
  \/ \E canvasOk \in BOOLEAN : callCapturePhoto(canvasOk)
  \/ callStopCamera

CameraSpec == CameraInit /\ [][CameraNext]_vars

(***************************************************************************)
(* Results rendered for the texts a recognition can return                 *)
(***************************************************************************)
MaxLen == 8

\* a digit, a space, a line break, a sign and a letter
Alphabet == {"1", " ", "\n", "+", "a"}

ExampleTexts ==
  { <<"o", "r", "d", "e", "r", " ", "1", "2", " ", "3", "4", " ", "5", "6",
      "7", "8", " ", "t", "h", "a", "n", "k", "s">>,
    <<"n", "o", " ", "n", "u", "m", "b", "e", "r", "s", " ", "h", "e", "r",
      "e">>,
    <<"i", "d", " ", "A", "B", " ", "1", "2", "3", "4", "5", "6">> }

\* the texts recognizeText can return: never blank
Texts ==
  {t \in UNION {[1..n -> Alphabet] : n \in 0..MaxLen} \cup ExampleTexts : ~IsBlank(t)}

\* handleProcessOCR has stored the result of recognizeText and awaits the location
TextInit ==
  /\ stage = "Processing"
  /\ errorMessage = NoMessage
  /\ capturedImageData = "frame"
  /\ lastResult \in {OCRResult(t) : t \in Texts}
  /\ extractedNumbers = <<>>
  /\ capturedLocation = NULL
  /\ isStartingCamera = FALSE
  /\ cameraManager = [state |-> [stream |-> NULL, isActive |-> FALSE, deviceId |-> NULL],
                      videoElement |-> NULL]
  /\ ocrEngine = [worker |-> "worker", isInitialized |-> TRUE,
                  onProgressCallback |-> "updateProgress"]
  /\ engineCall = [op |-> "none", pc |-> "done"]
  /\ progressLog = <<>>
  /\ loggerSeen = [index |-> 0, progress |-> 0, count |-> 0]
  /\ cameraCall = [op |-> "none", pc |-> "done"]
  /\ hasGetUserMedia = TRUE
  /\ hasGeolocation = TRUE
  /\ startPc = "idle"
  /\ video = NULL
  /\ runs = SetToBag({Run("awaitLocation", "pending")})
  /\ leaked = FALSE
  /\ orphanWorkers = 0
  /\ streamRequests = 1
  /\ availChecks = 1
  /\ dropped = FALSE
  /\ caught = "none"

TextNext == \E run \in PendingRuns, located \in BOOLEAN : LocationSettles(run, located)

TextSpec == TextInit /\ [][TextNext]_vars

(***************************************************************************)
(* Properties                                                              *)
(***************************************************************************)
\* a call of handleStartCamera made while an earlier invocation is pending
DuplicateStartCall == isStartingCamera /\ (ClickStartCamera \/ handleRetake)

\* the duplicate call changes nothing of the pending invocation, the view or
\* the camera, and issues no availability check and no stream request
DuplicateIsNoOp ==
  DuplicateStartCall =>
    /\ UNCHANGED <<isStartingCamera, startPc, video, streamRequests, availChecks>>
    /\ UNCHANGED <<stage, errorMessage, cameraManager, leaked>>
    /\ caught' = "none"

\* a start invocation during which a duplicate call was dropped settles
SettlesAfterDuplicate == dropped /\ startPc # "idle" /\ startPc' = "idle"

\* C1 (as stated): a second handleStartCamera call made while an earlier one
\* is pending is a silent no-op, and the two invocations together result in
\* exactly one stream request.
C1_ExactlyOneStreamRequest ==
  [][/\ DuplicateIsNoOp
     /\ SettlesAfterDuplicate => streamRequests' = 1]_vars

\* C1 (amended): a second handleStartCamera call made while an earlier one is
\* pending is a silent no-op, so the two invocations together issue one
\* availability check and only the stream requests of the first invocation:
\* none when the camera is unavailable, one when the back-camera request is
\* granted, two when it falls back to the front camera.
C1_SingleFlight ==
  [][/\ DuplicateIsNoOp
     /\ SettlesAfterDuplicate =>
          /\ availChecks' = 1
          /\ streamRequests' \in 0..2
          /\ startPc = "awaitAvail" => streamRequests' = 0
          /\ startPc = "awaitAccess1" => streamRequests' = 1
          /\ startPc = "awaitAccess2" => streamRequests' = 2]_vars

\* a duplicate call was dropped and the invocation ended after the fallback
C1_Witness ==
  /\ dropped
  /\ startPc = "idle"
  /\ streamRequests = 2
  /\ cameraManager.state.isActive

\* C2: after handleReset from Results or Error the stage is Idle and the
\* frame, the result, the extracted tokens and the location are all cleared.
C2_ResetClearsSession ==
  [][handleReset =>
       /\ stage' = "Idle"
       /\ capturedImageData' = NULL
       /\ lastResult' = NullResult
       /\ extractedNumbers' = <<>>
       /\ capturedLocation' = NULL]_vars

\* C3: whenever the stage becomes Error the camera manager is inactive and
\* holds no stream.
C3_CameraStoppedOnError ==
  [][stage # "Error" /\ stage' = "Error" =>
       /\ cameraManager'.state.stream = NULL
       /\ ~cameraManager'.state.isActive]_vars

\* C4: from Processing the next stage is always Results or Error.
C4_ProcessingLeadsToResultsOrError ==
  [][stage = "Processing" => stage' \in {"Processing", "Results", "Error"}]_vars

\* a pending camera start took the workflow from Processing to Error while
\* the processing run is still pending
C4_Witness ==
  /\ stage = "Error"
  /\ errorMessage = "Failed to start camera"
  /\ BagCardinality(runs) > 0

\* C5: once the stage is Error it stays Error until handleReset is taken.
C5_ErrorUntilReset ==
  [][stage = "Error" /\ stage' # "Error" => handleReset]_vars

\* C6: a processing run whose recognition succeeds and whose location lookup
\* yields no position ends in Results with the location absent.
C6_LocationFailureKeepsResults ==
  [][\A run \in PendingRuns :
       /\ \A workerResult \in WorkerOutcomes :
            ( /\ RecognizeSettles(run, workerResult)
              /\ recognizeOutcome(workerResult) = "none"
              /\ run.locationPromise = "resolvedNull" )
            => stage' = "Results" /\ capturedLocation' = NULL
       /\ ( LocationSettles(run, FALSE) /\ run.pc = "awaitLocation" )
            => stage' = "Results" /\ capturedLocation' = NULL]_vars

\* C7: when initialization or recognition fails during a processing run, the
\* run ends in Error with the message of the error table for that kind, and
\* stores no result.
C7_RecognitionFailureIsError ==
  [][\A run \in PendingRuns :
       /\ \A workerResult \in WorkerOutcomes :
            ( /\ RecognizeSettles(run, workerResult)
              /\ recognizeOutcome(workerResult) # "none" )
            => /\ stage' = "Error"
               /\ recognizeOutcome(workerResult) \in {"PROCESSING_FAILED", "NO_TEXT_FOUND"}
               /\ errorMessage' = ERROR_MESSAGES[recognizeOutcome(workerResult)]
               /\ lastResult' = lastResult
               /\ CopiesIn(run, runs') < CopiesIn(run, runs)
       /\ \A ctxOk \in BOOLEAN :
            InitSettles(run, FALSE, ctxOk)
            => /\ stage' = "Error"
               /\ errorMessage' = ERROR_MESSAGES["INITIALIZATION_FAILED"]
               /\ lastResult' = lastResult
               /\ CopiesIn(run, runs') < CopiesIn(run, runs)]_vars

C7_Witness ==
  /\ stage = "Error"
  /\ caught = "NO_TEXT_FOUND"
  /\ errorMessage = ERROR_MESSAGES["NO_TEXT_FOUND"]

\* C8: recognizeText fails with NO_TEXT_FOUND exactly when the worker returns
\* an empty or whitespace-only text, and with PROCESSING_FAILED exactly when
\* the worker call faults.
C8_BlankTextIsNoTextFound ==
  [][\A run \in PendingRuns : \A workerResult \in WorkerOutcomes :
       RecognizeSettles(run, workerResult) =>
         /\ (~workerResult.fault /\ \A i \in 1..Len(workerResult.text) :
                                       IsSpace(workerResult.text[i]))
              => caught' = "NO_TEXT_FOUND"
         /\ caught' = "PROCESSING_FAILED" <=> workerResult.fault]_vars

C8_Witness ==
  /\ caught = "NO_TEXT_FOUND"
  /\ lastResult = NullResult

\* C9: no stream request precedes the availability check, and when the check
\* reports the camera unavailable the invocation ends in Error without any
\* stream request.
C9_UnavailableNeverRequests ==
  [][/\ startPc' = "awaitAvail" => streamRequests' = 0 /\ availChecks' = 1
     /\ \A enumerated \in EnumerateOutcomes :
          ( AvailabilitySettles(enumerated) /\ ~checkCameraAvailability(enumerated) )
          => /\ stage' = "Error"
             /\ startPc' = "idle"
             /\ streamRequests' = 0]_vars

C9_Witness ==
  /\ stage = "Error"
  /\ errorMessage = "No camera detected. Please ensure your device has a camera and try again."
  /\ startPc = "idle"
  /\ streamRequests = 0
  /\ hasGetUserMedia

\* C10: the capture that takes CameraActive to PhotoCaptured stores the frame
\* and leaves the camera manager without stream, inactive and without sink.
C10_CaptureStopsCamera ==
  [][stage = "CameraActive" /\ stage' = "PhotoCaptured" =>
       /\ capturedImageData' = "frame"
       /\ cameraManager'.state.stream = NULL
       /\ ~cameraManager'.state.isActive
       /\ cameraManager'.videoElement = NULL]_vars

C10_Witness ==
  /\ stage = "PhotoCaptured"
  /\ capturedImageData = "frame"
  /\ cameraManager.state.stream = NULL
  /\ startPc = "idle"


\* the handlers bound to the buttons of the views (the copy buttons change no state)
UserAction ==
  \/ ClickStartCamera
  \/ handleCapture
  \/ handleCancel
  \/ handleRetake
  \/ handleProcessOCR
  \/ handleReset

\* some button of the current view takes the workflow to the idle view
CanGoIdle == ENABLED (UserAction /\ stage' = "Idle")

\* C11 (as stated): from CameraActive, PhotoCaptured, Results and Error a user
\* action leads directly to Idle, and from Processing none does.
C11_ResetFromEveryStage ==
  /\ stage \in {"CameraActive", "PhotoCaptured", "Results", "Error"} => CanGoIdle
  /\ stage = "Processing" => ~CanGoIdle

\* C11 (amended): from CameraActive, Results and Error a user action leads
\* directly to Idle; from PhotoCaptured and from Processing none does (the
\* captured view offers only process and retake).
C11_ResetAvailability ==
  /\ stage \in {"CameraActive", "Results", "Error"} => CanGoIdle
  /\ stage \in {"PhotoCaptured", "Processing"} => ~CanGoIdle

\* the captured view is shown with its two buttons, neither leading to Idle
C11_Witness ==
  /\ stage = "PhotoCaptured"
  /\ ENABLED handleRetake
  /\ ENABLED handleProcessOCR
  /\ ~CanGoIdle

\* C12: Results is entered only by a processing run whose recognition and
\* location lookup have both settled, and the location stored is the outcome
\* of that run's lookup.
C12_ResultsAfterBothSettle ==
  [][(stage' = "Results" /\ (stage # "Results" \/ BagCardinality(runs') < BagCardinality(runs))) =>
       \E run \in PendingRuns :
         /\ CopiesIn(run, runs') < CopiesIn(run, runs)
         /\ \/ \E workerResult \in WorkerOutcomes :
                 /\ RecognizeSettles(run, workerResult)
                 /\ run.locationPromise # "pending"
                 /\ capturedLocation' = LocationValue(run.locationPromise)
            \/ \E located \in BOOLEAN :
                 /\ LocationSettles(run, located)
                 /\ run.pc = "awaitLocation"
                 /\ capturedLocation' = (IF located THEN "position" ELSE NULL)]_vars

\* Results shown with the position a lookup delivered
C12_Witness ==
  /\ stage = "Results"
  /\ capturedLocation = "position"
  /\ lastResult # NullResult

\* C13: the frame is absent in Idle and CameraActive, and the result and the
\* location are absent in every stage other than Results.
C13_StageDeterminesFields ==
  /\ stage \in {"Idle", "CameraActive"} => capturedImageData = NULL
  /\ stage # "Results" => lastResult = NullResult /\ capturedLocation = NULL

\* C14: whenever the stage is Results the extracted tokens are those of the
\* result currently held.
C14_TokensMatchResult ==
  stage = "Results" =>
    /\ lastResult # NullResult
    /\ extractedNumbers = extractNumberSequences(lastResult.text)

\* the camera after one call of stopCamera in the current state
StoppedOnce == stopCamera(cameraManager)

\* C15: stopCamera with no stream held leaves the camera state as it is; a
\* second call in a row leaves what the first call left; after a call the
\* camera is inactive, holds no stream and no device id, and has no sink.
C15_StopCameraIdempotent ==
  /\ cameraManager.state.stream = NULL => StoppedOnce.state = cameraManager.state
  /\ stopCamera(StoppedOnce) = StoppedOnce
  /\ ~StoppedOnce.state.isActive
  /\ StoppedOnce.state.stream = NULL
  /\ StoppedOnce.state.deviceId = NULL
  /\ StoppedOnce.videoElement = NULL

\* both stream requests of a camera start were refused and its catch block
\* has called stopCamera with no stream held: the camera is as constructed
C15_Witness ==
  /\ stage = "Error"
  /\ caught \in CameraErrors
  /\ startPc = "idle"
  /\ streamRequests = 2
  /\ ~leaked
  /\ cameraManager = stopCamera(cameraManager)

\* C16: the worker is created by a processing run that found the engine not
\* ready; once a worker is held every step keeps that worker and leaves the
\* engine ready, whatever recognizeText settles with, and no processing run
\* creates a further worker.
C16_WorkerKeptAndCreatedOnce ==
  [][/\ (ocrEngine.worker = NULL /\ ocrEngine'.worker # NULL) =>
          \E run \in PendingRuns : run.pc = "awaitInit"
     /\ ocrEngine.worker # NULL =>
          /\ isReady(ocrEngine')
          /\ ocrEngine' = ocrEngine
          /\ orphanWorkers' = orphanWorkers]_vars

\* a direct caller calls initialize
InitializeCall == \E onProgress \in {"updateProgress", NULL} : initialize(onProgress)

\* C17: initialize called while the engine is ready returns at once: it
\* starts no worker creation, reports no progress and leaves the engine, its
\* worker and its progress sink as they are.
C17_InitializeWhenReadyIsNoOp ==
  [][(isReady(ocrEngine) /\ InitializeCall) =>
       /\ engineCall' = Returned("initialize")
       /\ caught' = "none"
       /\ progressLog' = progressLog
       /\ ocrEngine' = ocrEngine
       /\ isReady(ocrEngine')]_vars

\* initialize has returned on a ready engine whose last report is that of a
\* finished recognition
C17_Witness ==
  /\ engineCall = Returned("initialize")
  /\ isReady(ocrEngine)
  /\ progressLog # <<>>
  /\ progressLog[Len(progressLog)].status = "completed"

\* an initialize call is possible that starts a worker creation
CanRetryInitialize == ENABLED (InitializeCall /\ engineCall' = Awaiting("initialize"))

\* the pending worker creation can succeed and leave the engine ready
CanBecomeReady == ENABLED (createWorkerSettles(TRUE) /\ isReady(ocrEngine'))

\* C18: when createWorker fails, initialize throws INITIALIZATION_FAILED and
\* leaves the engine not ready and without a worker; initialize can then be
\* called again, starts a worker creation again, and that creation can leave
\* the engine ready.
C18_CreationFailureLeavesUninitialized ==
  [][/\ createWorkerSettles(FALSE) =>
          /\ caught' = "INITIALIZATION_FAILED"
          /\ ~isReady(ocrEngine')
          /\ ocrEngine'.worker = NULL
          /\ CanRetryInitialize'
     /\ (caught = "INITIALIZATION_FAILED" /\ InitializeCall) =>
          /\ engineCall' = Awaiting("initialize")
          /\ CanBecomeReady']_vars

\* initialize has thrown INITIALIZATION_FAILED and the engine is not ready
C18_Witness ==
  /\ engineCall = Returned("initialize")
  /\ caught = "INITIALIZATION_FAILED"
  /\ ~isReady(ocrEngine)
  /\ progressLog # <<>>
  /\ progressLog[Len(progressLog)].status = "error"

\* C19: recognizeText called while the engine is not ready throws an error
\* named Error, which is none of the kinds of the taxonomy, without calling
\* the worker and without reporting progress.
C19_RecognizeWhenNotReadyThrowsError ==
  [][(~isReady(ocrEngine) /\ recognizeText) =>
       /\ caught' = "Error"
       /\ caught' \notin OCRErrors
       /\ ~isAppError(caught')
       /\ engineCall' = Returned("recognizeText")
       /\ progressLog' = progressLog
       /\ ocrEngine' = ocrEngine]_vars

\* recognizeText has thrown on an engine that is not ready although it holds
\* a progress sink
C19_Witness ==
  /\ engineCall = Returned("recognizeText")
  /\ caught = "Error"
  /\ ~isReady(ocrEngine)
  /\ ocrEngine.onProgressCallback # NULL

\* the place of a phase in the order loading, initializing, recognizing, completed
PhaseRank(status) ==
  CASE status = "loading" -> 1
    [] status = "initializing" -> 2
    [] status = "recognizing" -> 3
    [] status = "completed" -> 4
    [] OTHER -> 5

\* the record is that of a run that initialized the engine and then
\* recognized a text
RunSucceeded ==
  /\ engineCall = Returned("recognizeText")
  /\ caught = "none"
  /\ progressLog # <<>>
  /\ progressLog[1] = OCRProgress("loading", 0)
  /\ progressLog[Len(progressLog)] = OCRProgress("completed", 100)

\* C20: over a run that initializes and then recognizes successfully no
\* phase is reported after a later phase, and within a phase the percentage
\* never decreases.
C20_ProgressPhasesOrdered ==
  RunSucceeded =>
    \A i, j \in 1..Len(progressLog) :
      i < j =>
        /\ PhaseRank(progressLog[i].status) <= PhaseRank(progressLog[j].status)
        /\ progressLog[i].status = progressLog[j].status =>
             progressLog[i].progress <= progressLog[j].progress

\* the kind claimed for a rejection of the stream request
ClaimedKind(errorName) ==
  IF errorName \in {"NotAllowedError", "PermissionDeniedError"} THEN "PERMISSION_DENIED"
  ELSE IF errorName \in {"NotFoundError", "DevicesNotFoundError"} THEN "NO_CAMERA"
  ELSE IF errorName = "NotSupportedError" THEN "NOT_SUPPORTED"
  ELSE "DEVICE_ERROR"

\* C21: requestCameraAccess throws NOT_SUPPORTED without requesting a stream
\* when getUserMedia is absent, and maps a rejection of the request to
\* PERMISSION_DENIED, NO_CAMERA, NOT_SUPPORTED or else DEVICE_ERROR; a failing
\* call changes nothing of the camera, so an inactive camera stays inactive
\* with no stream.
C21_RequestFailureKinds ==
  [][/\ \A facingMode \in FacingModes :
          (~hasGetUserMedia /\ callRequestCameraAccess(facingMode)) =>
            /\ caught' = "NOT_SUPPORTED"
            /\ cameraCall'.pc = "done"
            /\ cameraManager' = cameraManager
     /\ \A errorName \in StreamErrorNames :
          getUserMediaRejects(errorName) =>
            /\ caught' = ClaimedKind(errorName)
            /\ cameraManager' = cameraManager
            /\ cameraManager.state.stream = NULL =>
                 /\ cameraManager'.state.stream = NULL
                 /\ ~cameraManager'.state.isActive]_vars

\* a request was refused on an inactive camera and reported as a device error
C21_Witness ==
  /\ cameraCall.op = "requestCameraAccess"
  /\ cameraCall.pc = "done"
  /\ caught = "DEVICE_ERROR"
  /\ cameraManager.state.stream = NULL
  /\ ~cameraManager.state.isActive

\* C22: the first stream request of an invocation asks for the back camera;
\* when it is refused the invocation asks once more, for the front camera;
\* when that is refused too the workflow shows Error with the kind of the
\* second refusal, whatever the first was; an invocation issues at most two
\* requests.
C22_FallbackOnceThenError ==
  [][/\ (PendingFacing = NULL /\ PendingFacing' # NULL) =>
          /\ PendingFacing' = "environment"
          /\ streamRequests' = 1
     /\ \A errorName \in StreamErrorNames :
          AccessDenied(errorName) =>
            IF PendingFacing = "environment"
              THEN /\ PendingFacing' = "user"
                   /\ streamRequests' = 2
                   /\ stage' = stage
                   /\ caught' = "none"
              ELSE /\ PendingFacing' = NULL
                   /\ stage' = "Error"
                   /\ caught' = ClaimedKind(errorName)
                   /\ errorMessage' = ERROR_MESSAGES[ClaimedKind(errorName)]
                   /\ streamRequests' = 2
     /\ streamRequests' <= 2]_vars

\* both requests of an invocation were refused, the second for want of a
\* device, and the workflow shows the message of NO_CAMERA
C22_Witness ==
  /\ stage = "Error"
  /\ caught = "NO_CAMERA"
  /\ errorMessage = ERROR_MESSAGES["NO_CAMERA"]
  /\ streamRequests = 2
  /\ startPc = "idle"

DigitCount(s) == Cardinality({i \in 1..Len(s) : IsDigit(s[i])})

\* C23: every token shown with a result contains at least one digit, and at
\* least two digits when its whitespace is ignored.
C23_TokensHaveTwoDigits ==
  stage = "Results" =>
    \A k \in 1..Len(extractedNumbers) :
      /\ DigitCount(extractedNumbers[k]) >= 1
      /\ DigitCount(StripSpaces(extractedNumbers[k])) >= 2

\* the character class of the claim: a digit, a space, '+' or '-'
InClaimedClass(c) == IsDigit(c) \/ c \in {" ", "+", "-"}

RECURSIVE ClaimedRunLen(_, _)
ClaimedRunLen(s, i) ==
  IF i <= Len(s) /\ InClaimedClass(s[i]) THEN 1 + ClaimedRunLen(s, i + 1) ELSE 0

\* the maximal runs of class characters of length at least 8, left to right
RECURSIVE ClaimedRuns(_, _)
ClaimedRuns(s, i) ==
  IF i > Len(s) THEN <<>>
  ELSE LET n == ClaimedRunLen(s, i) IN
       IF n >= MinRunLen THEN <<SubSeq(s, i, i + n - 1)>> \o ClaimedRuns(s, i + n)
       ELSE IF n > 0 THEN ClaimedRuns(s, i + n)
       ELSE ClaimedRuns(s, i + 1)

\* C24: the tokens shown with a result are the trimmed maximal runs of
\* characters from {digit, space, '+', '-'} of length at least 8 that pass the
\* digit rule, in their order of appearance and with duplicates kept; any
\* other character ends a run.
C24_TokensFromClaimedRuns ==
  stage = "Results" =>
    extractedNumbers = FilterTokens(ClaimedRuns(lastResult.text, 1))

\* C25: retake discards the frame and leaves a camera start awaiting its
\* availability check; when the camera is available that start renders the
\* camera view with the frame still absent, requests the stream after the
\* delay, and when access is granted the camera is active and attached to
\* the preview of the camera view.
C25_RetakeRestartsCamera ==
  [][/\ handleRetake =>
          /\ capturedImageData' = NULL
          /\ isStartingCamera'
          /\ startPc' = "awaitAvail"
     /\ (capturedImageData = NULL /\ hasGetUserMedia /\ AvailabilitySettles("videoinput")) =>
          /\ stage' = "CameraActive"
          /\ startPc' = "awaitDelay"
          /\ capturedImageData' = NULL
     /\ (stage = "CameraActive" /\ DelayElapses) =>
          /\ stage' = "CameraActive"
          /\ startPc' = "awaitAccess1"
          /\ video' = "preview"
     /\ (stage = "CameraActive" /\ AccessGranted) =>
          /\ stage' = "CameraActive"
          /\ capturedImageData' = capturedImageData
          /\ cameraManager'.state.isActive
          /\ cameraManager'.state.stream # NULL
          /\ cameraManager'.videoElement = "preview"]_vars

\* the messages the three catch blocks render for an error outside the taxonomy
FallbackMessages ==
  {"Failed to start camera", "Failed to capture photo. Please try again.",
   "OCR processing failed"}

\* C26: every fault raised in the camera-start, capture and process actions
\* is caught in the step that raises it, which renders Error: with the
\* message of the error's kind when the kind is in the taxonomy, with a
\* fallback message otherwise.
C26_FaultsBecomeError ==
  [][caught' # "none" =>
       /\ stage' = "Error"
       /\ IF caught' \in CameraErrors \cup OCRErrors
            THEN errorMessage' = ERROR_MESSAGES[caught']
            ELSE errorMessage' \in FallbackMessages]_vars

\* the canvas context could not be created in a processing run: an error
\* outside the taxonomy was caught and the fallback message is shown
C26_Witness ==
  /\ stage = "Error"
  /\ caught = "Error"
  /\ errorMessage = "OCR processing failed"
  /\ capturedImageData = "frame"
  /\ isReady(ocrEngine)

\* C27: whenever the idle view is shown the camera is inactive and holds no
\* stream.
C27_IdleCameraInactive ==
  stage = "Idle" =>
    /\ ~cameraManager.state.isActive
    /\ cameraManager.state.stream = NULL

\* C28: no acquired stream with live tracks is ever dropped: a stream is
\* stored by requestCameraAccess only when no live stream is held.
C28_NoStreamLeaked ==
  /\ ~leaked
  /\ (cameraManager.state.stream # NULL /\ startPc \in {"awaitAccess1", "awaitAccess2"}) =>
       ~ENABLED AccessGranted

\* C29: whenever the captured or the processing view is shown the captured
\* frame is present, so a click on #process-ocr never finds it missing.
C29_FramePresent ==
  stage \in {"PhotoCaptured", "Processing"} => capturedImageData # NULL

\* a start invocation settles: its last awaited operation has settled
StartSettles == startPc # "idle" /\ startPc' = "idle"

\* a click on #start-camera enters a new start invocation
CanStartAgain == ENABLED (ClickStartCamera /\ startPc' = "awaitAvail")

\* C30: every outcome of a start invocation releases the single-flight flag,
\* the flag is false whenever no invocation is pending, and a start requested
\* from the idle view with no invocation pending is entered.
C30_FlagReleased ==
  [][/\ StartSettles => ~isStartingCamera'
     /\ startPc' = "idle" => ~isStartingCamera'
     /\ (startPc' = "idle" /\ stage' = "Idle") => CanStartAgain']_vars

\* a start invocation has failed after both stream requests were refused and
\* the flag is released
C30_Witness ==
  /\ stage = "Error"
  /\ caught = "PERMISSION_DENIED"
  /\ streamRequests = 2
  /\ startPc = "idle"
  /\ ~isStartingCamera

\* the number of calls of the worker factory that have not settled
InitializationsPending ==
  BagCardinality([run \in {r \in BagToSet(runs) : r.pc = "awaitInit"} |-> runs[run]])

\* C31: the worker factory is never called while an earlier initialization
\* is pending or after one has succeeded, so no worker is replaced without
\* having been terminated.
C31_OneWorkerCreated ==
  /\ InitializationsPending <= 1
  /\ isReady(ocrEngine) => InitializationsPending = 0
  /\ orphanWorkers = 0

\* the active flag, the device id and the sink agree with the stream held
CameraStateConsistent(cm) ==
  /\ cm.state.isActive <=> cm.state.stream # NULL
  /\ cm.state.deviceId # NULL => cm.state.stream # NULL
  /\ cm.videoElement # NULL => cm.state.stream # NULL

\* C32: in every state of the camera manager the active flag is true exactly
\* when a stream is held, and a device id or a sink is held only while a
\* stream is held; capturePhoto returns a frame only with a stream held, the
\* camera active and a sink attached, and attachToVideoElement succeeds only
\* with a stream held.
C32_CameraStateConsistent ==
  [][/\ CameraStateConsistent(cameraManager)
     /\ CameraStateConsistent(cameraManager')
     /\ \A canvasOk \in BOOLEAN :
          (callCapturePhoto(canvasOk) /\ caught' = "none") =>
            /\ cameraManager.state.stream # NULL
            /\ cameraManager.state.isActive
            /\ cameraManager.videoElement # NULL
     /\ (callAttachToVideoElement /\ caught' = "none") =>
          /\ cameraManager.state.stream # NULL
          /\ cameraManager'.videoElement # NULL]_vars

\* capturePhoto has returned a frame from an active camera with a device id
\* and a sink
C32_Witness ==
  /\ cameraCall.op = "capturePhoto"
  /\ caught = "none"
  /\ cameraManager.state.stream # NULL
  /\ cameraManager.state.isActive
  /\ cameraManager.state.deviceId = "device"
  /\ cameraManager.videoElement = "preview"

====
